---------------------------- MODULE Spec2Model ----------------------------
(***************************************************************************)
(* A model of the Symmetry desktop front end: the Electron main            *)
(* (privileged) process with its configuration loader and backend control, *)
(* the HTTP client factory of the renderer, and the two React views        *)
(* (TranslationSection, ComparisonSection) under the Home phase switch.    *)
(*                                                                         *)
(* The JavaScript event loop is modelled at task granularity: one action   *)
(* is one task (an event handler, a callback, or the continuation of an    *)
(* async function after an await that needs a new task) together with the  *)
(* microtasks it triggers.                                                 *)
(***************************************************************************)
EXTENDS Integers, Sequences, FiniteSets, Bags, TLC

\* ------------------------------------------------------------------ bounds
MaxWindows      == 2   \* runs of createWindow (startup + re-activations)
MaxStartBackend == 2   \* start-backend requests handled by the main process
MaxReqs         == 2   \* HTTP requests of the renderer outstanding together
MaxLen          == 3   \* characters of the strings given to the service functions
MaxElapsed      == 2   \* seconds the elapsed-time counter is followed for

\* ------------------------------------------------------- program constants
DefaultBackendPort == 8000
DefaultFrontendPort == 5173
DefaultTimeout     == 30000
DefaultSimilarityThreshold == 65   \* 0.65, in hundredths
AxiosTimeout       == 30000

VARIABLES
  \* ---- main (privileged) process
  platform,            \* process.platform
  configFile,          \* what ../config.json holds on disk
  appConstantsPromise, \* the memoized promise exported by AppConstants
  readCount,           \* number of fs.readFile calls on config.json
  AppConstants,        \* the module-level variable of main.ts
  appState,            \* "loaded" (before ready), "running", "quit"
  windows,             \* number of open BrowserWindows
  created,             \* number of createWindow runs so far
  cwAwaiting,          \* createWindow runs suspended in `await grabConfig()`
  grabbed,             \* value the last resumed grabConfig() returned/threw
  procs,               \* child processes started by exec/execFile, running
  cmdLog,              \* per handler run, the exec/execFile calls it made, in order
  startReplies,        \* start-backend request id -> reply sent to renderer
  spawnFailed,         \* start-backend request ids whose execFile failed
  lastConfigReply,     \* reply of the last get-app-config request
  timedOut,            \* spawned servers that execFile's timeout option has killed
  \* ---- renderer: services/axios.ts
  lastClient,          \* the last client getAxiosInstance returned
  \* ---- renderer: Home, TranslationSection, ComparisonSection
  phase,               \* Home's phase state: which view is rendered
  uiCrashed,           \* an effect threw: React has unmounted the tree
  sessionStorage,      \* the 'comparisonData' item of window.sessionStorage
  tr,                  \* state of the mounted TranslationSection
  cmp,                 \* state of the mounted ComparisonSection
  reqs,                \* requests, startBackend calls and timeouts outstanding
  alertBox,            \* the window.alert dialog, while it is open
  axiosError           \* the error held by the catch block of ComparisonSection's onSubmit

mainVars == << platform, configFile, appConstantsPromise, readCount, AppConstants,
               appState, windows, created, cwAwaiting, grabbed, procs, cmdLog,
               startReplies, spawnFailed, lastConfigReply, timedOut >>
mainVars_but_reply == << platform, configFile, appConstantsPromise, readCount,
                         AppConstants, appState, windows, created, cwAwaiting,
                         grabbed, procs, cmdLog, startReplies, spawnFailed, timedOut >>
axiosVars == << lastClient >>
uiVars == << phase, uiCrashed, sessionStorage, tr, cmp, reqs, alertBox, axiosError >>
vars == << mainVars, axiosVars, uiVars >>

\* =================================================================
\* Configuration loader (constants/AppConstants.ts)
\* =================================================================

\* An optional JSON key: <<>> when the key is absent, <<v>> when present.
None == << >>
Some(v) == << v >>

FileBaseUrls == { None, Some(""), Some("http://10.0.0.5:9000") }
FilePorts    == { None, Some(0), Some(9000) }
FileFrontendPorts == { None, Some(0), Some(3000) }
FileOllamaUrls    == { None, Some(""), Some("http://10.0.0.6:11434") }
FileTimeouts      == { None, Some(0), Some(5000) }
FileThresholds    == { None, Some(0), Some(80) }   \* in hundredths

\* A config.json that holds none of the optional keys.
NoKeys(status) ==
  [status |-> status, BACKEND_BASE_URL |-> None, BACKEND_PORT |-> None,
   FRONTEND_PORT |-> None, OLLAMA_BASE_URL |-> None, DEFAULT_TIMEOUT |-> None,
   SIMILARITY_THRESHOLD |-> None]

\* The contents config.json can have: no file, a file that is not JSON,
\* or a JSON object with any subset of the two backend keys.
ConfigFiles ==
  { NoKeys(s) : s \in {"missing", "malformed"} }
  \cup
  { [NoKeys("ok") EXCEPT !.BACKEND_BASE_URL = u, !.BACKEND_PORT = p] :
      u \in FileBaseUrls, p \in FilePorts }

\* The valid files: a JSON object with any subset of the six optional keys.
ValidConfigFiles ==
  { [status |-> "ok", BACKEND_BASE_URL |-> u, BACKEND_PORT |-> p,
     FRONTEND_PORT |-> f, OLLAMA_BASE_URL |-> o, DEFAULT_TIMEOUT |-> t,
     SIMILARITY_THRESHOLD |-> h] :
      u \in FileBaseUrls, p \in FilePorts, f \in FileFrontendPorts,
      o \in FileOllamaUrls, t \in FileTimeouts, h \in FileThresholds }

\* `http://127.0.0.1:${port}`
LoopbackUrl(port) ==
  CASE port = 8000 -> "http://127.0.0.1:8000"
    [] port = 9000 -> "http://127.0.0.1:9000"
    [] OTHER       -> "http://127.0.0.1:?"

\* JavaScript `a || b` on an optional string / an optional number.
OrString(opt, dflt) == IF opt = None \/ opt[1] = "" THEN dflt ELSE opt[1]
OrNumber(opt, dflt) == IF opt = None \/ opt[1] = 0 THEN dflt ELSE opt[1]

\* The value `undefined`, in the shape of an AppConstants object.
Undefined ==
  [defined |-> FALSE, BACKEND_BASE_URL |-> "", BACKEND_PORT |-> 0,
   FRONTEND_PORT |-> 0, OLLAMA_BASE_URL |-> "", DEFAULT_TIMEOUT |-> 0,
   SIMILARITY_THRESHOLD |-> 0]

DefaultOllamaUrl == "http://localhost:11434"

\* The object initializeConstants builds from a parsed file.
ConstantsObject(file) ==
  [defined |-> TRUE,
   BACKEND_BASE_URL |->
     OrString(file.BACKEND_BASE_URL,
              LoopbackUrl(OrNumber(file.BACKEND_PORT, DefaultBackendPort))),
   BACKEND_PORT |-> OrNumber(file.BACKEND_PORT, DefaultBackendPort),
   FRONTEND_PORT |-> OrNumber(file.FRONTEND_PORT, DefaultFrontendPort),
   OLLAMA_BASE_URL |-> OrString(file.OLLAMA_BASE_URL, DefaultOllamaUrl),
   DEFAULT_TIMEOUT |-> OrNumber(file.DEFAULT_TIMEOUT, DefaultTimeout),
   SIMILARITY_THRESHOLD |->
     OrNumber(file.SIMILARITY_THRESHOLD, DefaultSimilarityThreshold)]

\* A promise: pending, fulfilled with a value, or rejected.
Pending == [state |-> "pending", value |-> Undefined]

\* (initializeConstants_defaults: a loader that would answer a missing or
\* malformed file with the defaults.)
initializeConstants_defaults(file) ==
  [state |-> "fulfilled",
   value |-> ConstantsObject(NoKeys("ok"))]
\* What the promise of initializeConstants() settles to once readFile is done.
initializeConstants(file) ==
  IF file.status = "ok"
    THEN [state |-> "fulfilled", value |-> ConstantsObject(file)]
    ELSE [state |-> "rejected", value |-> Undefined]


\* grabConfig(): awaits the promise the module exported at load time. It is
\* given the loader's state and returns the promise it awaits and the number
\* of file reads made so far (it starts no read of its own).
\* (grabConfig_rereads: a loader that would start a new read on each call.)
grabConfig_rereads(promise, reads) == [awaits |-> Pending, reads |-> reads + 1]
grabConfig(promise, reads) == [awaits |-> promise, reads |-> reads]

\* =================================================================
\* Main process (main.ts)
\* =================================================================

Command(cmd, origin, req) == [cmd |-> cmd, origin |-> origin, req |-> req]

\* exec('lsof -ti:8000 | xargs kill -9 || true', cb)
LsofKill(origin, req) == Command("lsofkill", origin, req)
\* exec('pkill -f "python.*main.py" || true', cb)
PKill(origin, req)    == Command("pkill", origin, req)
\* execFile('python3', ['-m', 'uvicorn', ..., '--port', '8000'], {timeout}, cb)
Spawn(origin, req)    == Command("spawn", origin, req)
\* The port argument of both execFile calls.
SpawnPort == 8000
\* exec('killall pyapp', cb)
KillAll(origin, req)  == Command("killall", origin, req)

\* cmdLog keeps, for the handler run (origin, req), the commands it has
\* issued so far, in the order of the calls.
Issued(log, origin, req) ==
  IF \E e \in log : e.origin = origin /\ e.req = req
    THEN (CHOOSE e \in log : e.origin = origin /\ e.req = req).cmds
    ELSE << >>

Log(log, c) ==
  { e \in log : ~(e.origin = c.origin /\ e.req = c.req) }
  \cup { [origin |-> c.origin, req |-> c.req,
          cmds |-> Append(Issued(log, c.origin, c.req), c.cmd)] }

RECURSIVE LogAll(_, _)
LogAll(log, cmds) ==
  IF cmds = << >> THEN log ELSE LogAll(Log(log, Head(cmds)), Tail(cmds))

Range(seq) == { seq[i] : i \in 1..Len(seq) }

\* The part of createWindow after `await grabConfig()`, for every run in
\* `runs`, once the awaited promise p is settled: on success the module
\* variable is assigned and the kill-then-spawn chain is started with the
\* port kill; on failure the catch block only logs.
AfterGrabConfig(runs, p) ==
  LET ok   == p.state = "fulfilled"
      cmds == IF ok THEN { LsofKill("createWindow", r) : r \in runs } ELSE {}
  IN  /\ grabbed' = IF runs = {} THEN grabbed ELSE [seen |-> TRUE, promise |-> p]
      /\ AppConstants' = IF ok /\ runs # {} THEN p.value ELSE AppConstants
      /\ procs' = procs \cup cmds
      /\ cmdLog' = cmdLog \cup { [origin |-> c.origin, req |-> c.req,
                                  cmds |-> << c.cmd >>] : c \in cmds }

\* createWindow: the window is created and starts loading, then the run
\* awaits grabConfig(). A settled promise is resumed in the same task.
createWindow ==
  LET run == created + 1
      g   == grabConfig(appConstantsPromise, readCount)
  IN  /\ created < MaxWindows
      /\ created' = run
      /\ windows' = windows + 1
      /\ readCount' = g.reads
      /\ appConstantsPromise' = g.awaits
      /\ IF g.awaits.state = "pending"
           THEN /\ cwAwaiting' = cwAwaiting \cup {run}
                /\ UNCHANGED << grabbed, AppConstants, procs, cmdLog >>
           ELSE /\ cwAwaiting' = cwAwaiting
                /\ AfterGrabConfig({run}, g.awaits)

\* fs.readFile completes: the promise of initializeConstants() settles and
\* every createWindow run suspended on it resumes.
ReadFileDone ==
  /\ appState # "quit"
  /\ appConstantsPromise.state = "pending"
  /\ appConstantsPromise' = initializeConstants(configFile)
  /\ AfterGrabConfig(cwAwaiting, initializeConstants(configFile))
  /\ cwAwaiting' = {}
  /\ UNCHANGED << platform, configFile, readCount, appState, windows, created,
                  startReplies, spawnFailed, lastConfigReply, lastClient, timedOut, uiVars >>

\* app.on("ready", createWindow)
AppReady ==
  /\ appState = "loaded"
  /\ appState' = "running"
  /\ createWindow
  /\ UNCHANGED << platform, configFile, startReplies, spawnFailed,
                  lastConfigReply, lastClient, timedOut, uiVars >>

\* app.on("activate"): macOS re-activation with no window open.
Activate ==
  /\ appState = "running"
  /\ platform = "darwin"
  /\ windows = 0
  /\ createWindow
  /\ UNCHANGED << platform, configFile, appState, startReplies, spawnFailed,
                  lastConfigReply, lastClient, timedOut, uiVars >>

\* The channels main.ts registers a handler for with ipcMain.handle.
IpcHandlers == { "get-app-config", "start-backend" }

\* ipcMain.handle('get-app-config'): returns the module variable as it is.
GetAppConfig ==
  /\ appState = "running"
  /\ windows > 0
  /\ lastConfigReply' = [served |-> TRUE, value |-> AppConstants]
  /\ UNCHANGED << mainVars_but_reply, lastClient, uiVars >>


\* What a synchronous throw of exec/execFile inside the handler's try block
\* can be: none, exec(pkill) throws, or execFile(python3) throws.
SyncThrows == {"none", "exec", "execFile"}

\* ipcMain.handle('start-backend'): exec(pkill) and execFile(uvicorn) are
\* both started without waiting for either, then {success: true} is
\* returned. Only a synchronous throw reaches the catch block.
StartBackendHandler ==
  /\ appState = "running"
  /\ windows > 0
  /\ Len(startReplies) < MaxStartBackend
  /\ \E thr \in SyncThrows :
       LET req  == Len(startReplies) + 1
           cmds == CASE thr = "exec"     -> << >>
                     [] thr = "execFile" -> << PKill("start-backend", req) >>
                     [] OTHER            -> << PKill("start-backend", req),
                                               Spawn("start-backend", req) >>
       IN  /\ cmdLog' = LogAll(cmdLog, cmds)
           /\ procs' = procs \cup Range(cmds)
           /\ startReplies' = Append(startReplies,
                                [success |-> thr = "none", error |-> thr # "none"])
  /\ UNCHANGED << platform, configFile, appConstantsPromise, readCount, AppConstants,
                  appState, windows, created, cwAwaiting, grabbed, spawnFailed,
                  lastConfigReply, lastClient, timedOut, uiVars >>

\* How an execFile child can end: the spawn itself fails, the server exits
\* by itself (status 0 or not), or the timeout option kills it.
SpawnOutcomes == {"ENOENT", "exit0", "exit1", "timeout"}

\* The callback of an exec/execFile call runs. err is the callback's error
\* argument for the shell commands; outcome is how the spawned server ended.
\* In the createWindow chain each callback starts the next command whatever
\* err is; the start-backend callbacks only log (the value returned by the
\* execFile callback is dropped by execFile).
ExecCallback ==
  /\ appState = "running"
  /\ \E c \in procs, err \in BOOLEAN, outcome \in SpawnOutcomes :
       LET rest == procs \ {c}
           next == IF c.origin = "createWindow" /\ c.cmd = "lsofkill"
                     THEN << PKill(c.origin, c.req) >>
                   ELSE IF c.origin = "createWindow" /\ c.cmd = "pkill"
                     THEN << Spawn(c.origin, c.req) >>
                   ELSE << >>
       IN  /\ (c.cmd = "spawn") => ~err
           /\ (c.cmd # "spawn") => outcome = "exit0"
           /\ procs' = rest \cup Range(next)
           /\ cmdLog' = LogAll(cmdLog, next)
           /\ spawnFailed' =
                IF c.cmd = "spawn" /\ c.origin = "start-backend" /\ outcome = "ENOENT"
                  THEN spawnFailed \cup {c.req}
                  ELSE spawnFailed
           /\ timedOut' =
                IF c.cmd = "spawn" /\ outcome = "timeout"
                  THEN timedOut \cup { c }
                  ELSE timedOut
  /\ UNCHANGED << platform, configFile, appConstantsPromise, readCount, AppConstants,
                  appState, windows, created, cwAwaiting, grabbed, startReplies,
                  lastConfigReply, lastClient, uiVars >>

\* app.on("window-all-closed"): off macOS, killall and app.quit(); then,
\* on every platform, killall (again).
WindowAllClosed ==
  /\ appState = "running"
  /\ windows > 0
  /\ windows' = 0
  /\ LET cmds == IF platform # "darwin"
                   THEN << KillAll("window-all-closed:not-darwin", created),
                           KillAll("window-all-closed", created) >>
                   ELSE << KillAll("window-all-closed", created) >>
     IN  /\ procs' = procs \cup Range(cmds)
         /\ cmdLog' = LogAll(cmdLog, cmds)
  /\ appState' = IF platform # "darwin" THEN "quit" ELSE appState
  /\ UNCHANGED << platform, configFile, appConstantsPromise, readCount, AppConstants,
                  created, cwAwaiting, grabbed, startReplies, spawnFailed,
                  lastConfigReply, lastClient, timedOut, uiVars >>

\* The user quits the application (Cmd+Q, the Quit menu item): Electron
\* closes the windows and emits before-quit, will-quit and quit, and does
\* not emit window-all-closed. main.ts registers handlers for ready,
\* window-all-closed and activate only, so none of its code runs.
AppQuit ==
  /\ appState = "running"
  /\ appState' = "quit"
  /\ windows' = 0
  /\ UNCHANGED << platform, configFile, appConstantsPromise, readCount, AppConstants,
                  created, cwAwaiting, grabbed, procs, cmdLog, startReplies,
                  spawnFailed, lastConfigReply, lastClient, timedOut, uiVars >>

\* =================================================================
\* HTTP client factory of the renderer (services/axios.ts)
\* =================================================================

FallbackBaseUrl == "http://127.0.0.1:8000"

\* The operations of window.electronAPI, as the renderer declares them.
ElectronAPI == { "getAppConfig", "onConfigUpdated" }

\* axios.create({baseURL, timeout}): a new client, with no interceptor.
AxiosCreate(baseURL, timeout) ==
  [baseURL |-> baseURL, timeout |-> timeout, interceptors |-> {}]

\* The exported default client, on which the module installs the request
\* and the response logging interceptors.
axiosInstance ==
  [AxiosCreate(FallbackBaseUrl, AxiosTimeout)
     EXCEPT !.interceptors = { "request", "response" }]

\* What `await window.electronAPI.getAppConfig()` can do: window.electronAPI
\* is absent (TypeError), the invoke rejects, or it resolves with a reply.
BridgeAbsent  == [kind |-> "absent",  reply |-> Undefined]
BridgeRejects == [kind |-> "rejects", reply |-> Undefined]
BridgeReplies(r) == [kind |-> "replies", reply |-> r]

\* A reply object that has no BACKEND_BASE_URL.
ConfigWithoutBaseUrl ==
  [ConstantsObject(NoKeys("ok")) EXCEPT !.BACKEND_BASE_URL = ""]

\* The try block of getAxiosInstance: throws or creates the client.
getAxiosInstanceTry(bridge) ==
  IF bridge.kind # "replies" THEN [threw |-> TRUE, client |-> AxiosCreate("", 0)]
  ELSE IF ~bridge.reply.defined THEN [threw |-> TRUE, client |-> AxiosCreate("", 0)]
  ELSE IF bridge.reply.BACKEND_BASE_URL = "" THEN [threw |-> TRUE, client |-> AxiosCreate("", 0)]
  ELSE [threw |-> FALSE,
        client |-> AxiosCreate(bridge.reply.BACKEND_BASE_URL, AxiosTimeout)]

\* (getAxiosInstance_nofallback: the try block without its catch.)
getAxiosInstance_nofallback(bridge) == getAxiosInstanceTry(bridge)
\* getAxiosInstance: the catch block returns the fallback client.
getAxiosInstance(bridge) ==
  LET t == getAxiosInstanceTry(bridge)
  IN  IF t.threw
        THEN [threw |-> FALSE, client |-> AxiosCreate(FallbackBaseUrl, AxiosTimeout)]
        ELSE t

\* A service (fetchArticle, translateArticle, compareArticles, the liveness
\* probe) calls getAxiosInstance(); the bridge answers with what the main
\* process handler returns at that moment, or fails.
GetAxiosInstance ==
  /\ appState = "running"
  /\ windows > 0
  /\ \E bridge \in { BridgeAbsent, BridgeRejects, BridgeReplies(AppConstants),
                     BridgeReplies(ConfigWithoutBaseUrl) } :
       lastClient' = [made |-> TRUE, bridge |-> bridge,
                      result |-> getAxiosInstance(bridge)]
  /\ UNCHANGED << mainVars, uiVars >>

\* =================================================================
\* Values of the renderer
\* =================================================================

\* A string typed into a URL field, kept with what `new URL(s)` makes of
\* it: ok is FALSE when the constructor throws, and text is then the string.
UrlEmpty == [ok |-> FALSE, text |-> "", host |-> "", path |-> ""]
UrlBad   == [ok |-> FALSE, text |-> "not a url", host |-> "", path |-> ""]
UrlWiki  == [ok |-> TRUE, text |-> "", host |-> "en.wikipedia.org", path |-> "/wiki/A"]
Urls     == { UrlEmpty, UrlBad, UrlWiki }

\* JavaScript truthiness of the string.
Truthy(u) == u.ok \/ u.text # ""

\* url.match(/https?:\/\/([a-z]{2})\.wikipedia\.org/), then
\* `langMatch ? langMatch[1] : 'en'`.
WikiLang(u) ==
  CASE u.ok /\ u.host = "en.wikipedia.org" -> "en"
    [] u.ok /\ u.host = "fr.wikipedia.org" -> "fr"
    [] OTHER -> "en"

\* `${targetLang.toLowerCase()}.wikipedia.org`
TargetHost(targetLang) ==
  CASE targetLang = "English" -> "english.wikipedia.org"
    [] targetLang = "fr"      -> "fr.wikipedia.org"
    [] OTHER                  -> "?.wikipedia.org"

\* langMap[targetLang] || targetLang.toLowerCase()
TargetLangCode(targetLang) ==
  CASE targetLang = "English" -> "en"
    [] targetLang = "French"  -> "fr"
    [] targetLang = "Hindi"   -> "hi"
    [] targetLang = "Arabic"  -> "ar"
    [] targetLang = "fr"      -> "fr"
    [] OTHER                  -> "?"

\* The 'comparisonData' item: absent, or the JSON of the four form values.
NoItem == [present |-> FALSE, sourceContent |-> "", translatedContent |-> "",
           sourceUrl |-> UrlEmpty, targetLanguage |-> ""]

\* The let-binding `abortController` when it holds null.
NoController == "null"
\* `new AbortController()`
NewController == "AbortController"

\* Response bodies of the backend.
FetchResponses ==
  { [sourceArticle |-> "a1", articleLanguages |-> ls] : ls \in { << >>, << "fr" >> } }
TranslateResponses == { [translatedArticle |-> "t1"] }
\* A comparison as the backend returns it; the index lists are 0-based
\* positions in the array of the same side.
LeftSentences == << "a", "b", "c" >>
RightSentences == << "x", "y", "z" >>
Result(extraRight, missingLeft) ==
  [present |-> TRUE,
   left_article_array |-> LeftSentences, right_article_array |-> RightSentences,
   left_article_missing_info_index |-> missingLeft,
   right_article_extra_info_index |-> extraRight]
\* null / undefined in place of a comparison.
NoResult ==
  [present |-> FALSE, left_article_array |-> << >>, right_article_array |-> << >>,
   left_article_missing_info_index |-> << >>, right_article_extra_info_index |-> << >>]
R1 == Result(<< 0, 2 >>, << >>)
R2 == Result(<< >>, << 1 >>)
IndexLists == { << >>, << 0 >>, << 1 >>, << 0, 2 >>, << 2, 0 >>, << 1, 1 >>, << 0, 1, 2 >> }
ComparisonResults == { Result(er, ml) : er \in IndexLists, ml \in IndexLists }

\* has: the body has a comparisons member (the type of the response is
\* only a compile-time annotation).
CompareResponses ==
  { [has |-> TRUE, comparisons |-> cs] : cs \in { << >>, << R1 >>, << R2, R1 >> } }
  \cup { [has |-> FALSE, comparisons |-> << >>] }

\* Errors an axios call rejects with. status is 0 when no response came.
ErrTimeout  == [name |-> "AxiosError", code |-> "ECONNABORTED", status |-> 0, detail |-> "",
                message |-> "timeout of 30000ms exceeded"]
ErrNetwork  == [name |-> "AxiosError", code |-> "ERR_NETWORK", status |-> 0, detail |-> "",
                message |-> "Network Error"]
ErrCanceled == [name |-> "AxiosError", code |-> "ERR_CANCELED", status |-> 0, detail |-> "",
                message |-> "canceled"]
ErrHttp(st, detail) ==
  [name |-> "AxiosError", code |-> IF st >= 500 THEN "ERR_BAD_RESPONSE" ELSE "ERR_BAD_REQUEST",
   status |-> st, detail |-> detail,
   message |-> CASE st = 400 -> "Request failed with status code 400"
                 [] st = 404 -> "Request failed with status code 404"
                 [] st = 422 -> "Request failed with status code 422"
                 [] st = 500 -> "Request failed with status code 500"
                 [] OTHER    -> "Request failed with status code 403"]
ErrInvalidUrl == [name |-> "TypeError", code |-> "ERR_INVALID_URL", status |-> 0, detail |-> "",
                  message |-> "Invalid URL"]

\* The TypeError of `response.data.comparisons[0]` on a body that has no
\* comparisons member: it carries neither a code nor a response.
ErrNoComparisons == [name |-> "TypeError", code |-> "", status |-> 0, detail |-> "",
                     message |-> "Cannot read properties of undefined (reading '0')"]
\* No error.
NoError == [name |-> "", code |-> "", status |-> 0, detail |-> "", message |-> ""]

HttpStatuses == { 400, 403, 404, 422, 500 }
AxiosErrors ==
  { ErrTimeout, ErrNetwork }
  \cup { ErrHttp(st, d) : st \in HttpStatuses, d \in { "", "backend detail" } }

\* String.prototype.includes on the messages above.
Includes(message, needle) ==
  \/ needle = "Network Error" /\ message = "Network Error"
  \/ needle = "ECONNREFUSED"  /\ FALSE
  \/ needle = "timeout" /\ message = "timeout of 30000ms exceeded"
  \/ needle = "404" /\ message = "Request failed with status code 404"
  \/ needle = "400" /\ message = "Request failed with status code 400"

\* `a || b` on strings.
Or(a, b) == IF a = "" THEN b ELSE a

\* An alert text: the fixed part, the number set into it (0: none) and the
\* variable tail.
Message(text, n, tail) == [text |-> text, n |-> n, tail |-> tail]

\* The catch block of TranslationSection's onSubmit / onLanguageChange.
TranslationErrorMessage(e, what) ==
  IF Includes(e.message, "Network Error") \/ Includes(e.message, "ECONNREFUSED")
    THEN Message("Backend server is not running. Please start the backend server first.", 0, "")
  ELSE IF Includes(e.message, "timeout")
    THEN Message("Request timed out. Please check your internet connection and try again.", 0, "")
  ELSE IF Includes(e.message, "404")
    THEN Message(IF what = "fetch"
                   THEN "Article not found. Please check the URL and try again."
                   ELSE "Translation not available for the selected language.", 0, "")
  ELSE IF Includes(e.message, "400")
    THEN Message(IF what = "fetch"
                   THEN "Invalid request. Please check the URL format."
                   ELSE "Invalid translation request. Please try again.", 0, "")
  ELSE Message("Error: ", 0, e.message)

\* The catch block of ComparisonSection's onSubmit; elapsedTime is the value
\* the closure of onSubmit holds.
ComparisonErrorMessage_statusFirst(e, elapsedTime) ==
  IF e.status = 400
    THEN Message("Bad Request: ", 0, Or(e.detail, "Invalid request parameters."))
  ELSE IF e.status = 404
    THEN Message("Comparison endpoint not found (404). ", 0,
                 Or(e.detail, "Please check that the backend server is running."))
  ELSE IF e.status = 422
    THEN Message("Validation Error: ", 0, Or(e.detail, "The request contains invalid data."))
  ELSE IF e.status >= 500
    THEN Message("Server error", e.status,
                 Or(e.detail, "The backend encountered an error. Check backend logs for details."))
  ELSE IF e.code = "ECONNABORTED"
    THEN Message("Comparison request timed out after", elapsedTime, "")
  ELSE IF e.code = "ERR_CANCELED"
    THEN Message("Comparison was stopped by the user.", 0, "")
  ELSE IF e.status = 0
    THEN Message("Unable to connect to the backend server.", 0, e.message)
  ELSE Message("Comparison failed: ", 0, e.message)
ComparisonErrorMessage(e, elapsedTime) ==
  IF e.code = "ECONNABORTED"
    THEN Message("Comparison request timed out after", elapsedTime, "")
  ELSE IF e.code = "ERR_CANCELED"
    THEN Message("Comparison was stopped by the user.", 0, "")
  ELSE IF e.status = 400
    THEN Message("Bad Request: ", 0, Or(e.detail, "Invalid request parameters."))
  ELSE IF e.status = 404
    THEN Message("Comparison endpoint not found (404). ", 0,
                 Or(e.detail, "Please check that the backend server is running."))
  ELSE IF e.status = 422
    THEN Message("Validation Error: ", 0, Or(e.detail, "The request contains invalid data."))
  ELSE IF e.status >= 500
    THEN Message("Server error", e.status,
                 Or(e.detail, "The backend encountered an error. Check backend logs for details."))
  ELSE IF e.status = 0
    THEN Message("Unable to connect to the backend server.", 0, e.message)
  ELSE Message("Comparison failed: ", 0, e.message)

\* form.setValue(name, value) on a field holding current.
setValue_ifEmpty(current, value) == IF current = "" THEN value ELSE current
setValue(current, value) == value

\* The text the user types into a form field.
Typed == "typed"

NoAlert == [open |-> FALSE, msg |-> Message("", 0, ""), cont |-> "none", live |-> FALSE]
Alert(msg, cont, live) == [open |-> TRUE, msg |-> msg, cont |-> cont, live |-> live]

\* =================================================================
\* View state
\* =================================================================

\* TranslationSection after its first render (useState/useForm defaults).
\* probed records how the last probe that reported to this instance ended
\* ("none" before any did): which branch of checkBackendStatus ran last.
TrInit ==
  [mounted |-> TRUE, isLoading |-> FALSE, backendStatus |-> "unknown",
   probed |-> "none", isBackendStarting |-> FALSE,
   sourceArticleUrl |-> UrlEmpty, targetArticleLanguage |-> "English",
   sourceArticleContent |-> "", translatedArticleContent |-> "",
   availableTranslationLanguages |-> << >>]
TrUnmounted == [TrInit EXCEPT !.mounted = FALSE]

\* The Results Section of ComparisonSection's JSX: nothing while
\* comparisonResult is null, else one <li> per entry of each index list
\* ("Sentence {index + 1}: {array[index]}") and the no-differences text
\* when both lists are empty.
ResultsSection_zeroBased(result) ==
  [shown |-> result.present,
   missing |-> [i \in 1..Len(result.right_article_extra_info_index) |->
                  [sentence |-> result.right_article_extra_info_index[i],
                   text |-> result.right_article_array[
                              result.right_article_extra_info_index[i] + 1]]],
   extra |-> [i \in 1..Len(result.left_article_missing_info_index) |->
                [sentence |-> result.left_article_missing_info_index[i],
                 text |-> result.left_article_array[
                            result.left_article_missing_info_index[i] + 1]]],
   noDifferences |-> /\ result.present
                     /\ Len(result.right_article_extra_info_index) = 0
                     /\ Len(result.left_article_missing_info_index) = 0]
ResultsSection(result) ==
  [shown |-> result.present,
   missing |-> [i \in 1..Len(result.right_article_extra_info_index) |->
                  [sentence |-> result.right_article_extra_info_index[i] + 1,
                   text |-> result.right_article_array[
                              result.right_article_extra_info_index[i] + 1]]],
   extra |-> [i \in 1..Len(result.left_article_missing_info_index) |->
                [sentence |-> result.left_article_missing_info_index[i] + 1,
                 text |-> result.left_article_array[
                            result.left_article_missing_info_index[i] + 1]]],
   noDifferences |-> /\ result.present
                     /\ Len(result.right_article_extra_info_index) = 0
                     /\ Len(result.left_article_missing_info_index) = 0]

\* ComparisonSection after its first render. received records the
\* comparisons array of the response the current submission got (empty
\* while it has got none); lostEdit, that the text now in the Source
\* Content field replaced one the user had typed there.
CmpInit ==
  [mounted |-> TRUE, isLoading |-> FALSE, isRunning |-> FALSE, elapsedTime |-> 0,
   comparisonResult |-> NoResult, resultsSection |-> ResultsSection(NoResult),
   received |-> << >>, lostEdit |-> FALSE, sourceText |-> "", targetText |-> "",
   sourceLanguage |-> "en", targetLanguage |-> "en", targetUrl |-> UrlEmpty,
   isTargetTextReadOnly |-> FALSE, isTargetLanguageReadOnly |-> FALSE,
   formSourceText |-> "", formTargetText |-> "",
   abortController |-> NoController]
CmpUnmounted == [CmpInit EXCEPT !.mounted = FALSE]

\* Every render of ComparisonSection runs `let abortController = null`:
\* the handlers of the new render close over a fresh binding; the JSX is
\* computed from the state of that render.
Render(c) == [c EXCEPT !.abortController = NoController,
                       !.resultsSection = ResultsSection(c.comparisonResult)]

\* The timer effect, run after a render in which isRunning changed to
\* false: setElapsedTime(0).
TimerEffect(c) == IF c.isRunning THEN c ELSE [c EXCEPT !.elapsedTime = 0]

\* The first effect of ComparisonSection, run at mount on the item found in
\* sessionStorage. `new URL(sourceUrl)` throws on a string that is no URL;
\* the effect then ends before removeItem and React unmounts the tree.
LoadComparisonData(item) ==
  IF ~item.present
    THEN [cmp |-> CmpInit, storage |-> item, threw |-> FALSE]
  ELSE IF Truthy(item.sourceUrl) /\ item.targetLanguage # "" /\ ~item.sourceUrl.ok
    THEN [cmp |-> CmpUnmounted, storage |-> item, threw |-> TRUE]
  ELSE
    LET base == [CmpInit EXCEPT !.sourceText = item.sourceContent,
                                !.targetText = item.translatedContent,
                                !.formSourceText = item.sourceContent,
                                !.formTargetText = item.translatedContent]
        withUrl ==
          IF Truthy(item.sourceUrl)
            THEN [base EXCEPT
                    !.sourceLanguage = WikiLang(item.sourceUrl),
                    !.targetUrl = IF item.targetLanguage # ""
                                    THEN [item.sourceUrl EXCEPT
                                            !.host = TargetHost(item.targetLanguage)]
                                    ELSE base.targetUrl,
                    !.targetLanguage = IF item.targetLanguage # ""
                                         THEN TargetLangCode(item.targetLanguage)
                                         ELSE base.targetLanguage,
                    !.isTargetTextReadOnly = TRUE,
                    !.isTargetLanguageReadOnly = TRUE]
            ELSE base
    IN  [cmp |-> withUrl, storage |-> NoItem, threw |-> FALSE]

\* =================================================================
\* HTTP requests of the renderer
\* =================================================================

\* An outstanding request. live: the component instance that issued it is
\* still mounted. cont: "submit" on the probe that TranslationSection's
\* onSubmit awaits before fetchArticle. elapsed: the elapsedTime held by the
\* closure that issued it. signal: the controller whose signal axios was
\* given; aborted: abort() was called on that controller. stopClicked: the
\* user pressed Stop while it was outstanding. reply: what the main process
\* answered to an electronAPI.startBackend() call ("none": nothing yet).
\* Besides the HTTP requests, reqs holds the startBackend calls in flight
\* (kind "startBackend") and the pending 3 s timeouts (kind "timeout").
Request(kind, view, cont, url) ==
  [kind |-> kind, view |-> view, live |-> TRUE, cont |-> cont,
   url |-> url, language |-> "", textA |-> "", textB |-> "",
   elapsed |-> 0, signal |-> NoController, aborted |-> FALSE,
   stopClicked |-> FALSE, reply |-> "none"]

\* compareArticles(textA, textB, languageA, languageB): the POST it issues.
\* No signal is passed to axios.
compareArticles(textA, textB, languageA, languageB) ==
  [Request("compare", "comparison", "none", UrlEmpty)
     EXCEPT !.textA = textA, !.textB = textB, !.language = languageB]

\* reqs is the bag of the requests outstanding.
Sent(rs, r) == rs (+) SetToBag({ r })
Settled(rs, r) == rs (-) SetToBag({ r })
CanSend == BagCardinality(reqs) < MaxReqs

\* The renderer can run a task: the tree is mounted and no alert blocks it.
UiIdle == ~uiCrashed /\ ~alertBox.open

\* The requests a user action started (the probe awaited by onSubmit
\* included).
IsUserRequest(r) ==
  r.kind \in {"fetch", "translate", "compare"} \/ r.cont = "submit"

\* How many of them are outstanding for one view.
UserRequests(view) ==
  BagCardinality([ r \in { x \in BagToSet(reqs) : x.view = view /\ IsUserRequest(x) }
                     |-> reqs[r] ])

\* =================================================================
\* Home: phase navigation
\* =================================================================

Phases == { "TRANSLATION", "AI_COMPARISON", "STRUCTURED_ARTICLE" }

\* The three navigation buttons as they are in the DOM. React attaches the
\* onClick props through its own event delegation: the elements carry a
\* class attribute and no onclick attribute.
HomeButtons ==
  { [phase |-> ph, attrs |-> { "class" }] : ph \in Phases }

\* document.querySelector('button[onClick*="Phase.AI_COMPARISON"]')
ComparisonButtonFound ==
  { b \in HomeButtons : "onclick" \in b.attrs /\ b.phase = "AI_COMPARISON" }

\* Unmounting a component leaves its requests outstanding.
\* Its continuation runs in an unmounted instance, whose state updates React
\* drops: of what the request carried only the error path's alert is left.
Orphan(r) ==
  [r EXCEPT !.live = FALSE, !.url = UrlEmpty, !.language = "",
            !.textA = "", !.textB = ""]
Orphaned(rs) == BagOfAll(Orphan, rs)

\* checkBackendStatus(): the probe GET it sends.
Probe(cont, url) == Request("probe", "translation", cont, url)

\* setPhase(ph) followed by the render it causes: the view of the old phase
\* unmounts, the view of the new phase mounts and runs its mount effects
\* (TranslationSection: checkBackendStatus() and the 30 s interval;
\* ComparisonSection: the sessionStorage load and the timer effect).
\* storage is the sessionStorage content at the time of the render.
SwitchPhase(ph, storage) ==
  /\ phase' = ph
  /\ alertBox' = alertBox
  /\ CASE ph = "TRANSLATION" ->
            /\ CanSend
            /\ tr' = TrInit
            /\ cmp' = CmpUnmounted
            /\ reqs' = Sent(Orphaned(reqs), Probe("none", UrlEmpty))
            /\ sessionStorage' = storage
            /\ uiCrashed' = uiCrashed
       [] ph = "AI_COMPARISON" ->
            LET m == LoadComparisonData(storage)
            IN  /\ tr' = TrUnmounted
                /\ cmp' = TimerEffect(m.cmp)
                /\ reqs' = Orphaned(reqs)
                /\ sessionStorage' = m.storage
                /\ uiCrashed' = m.threw
       [] OTHER ->
            /\ tr' = TrUnmounted
            /\ cmp' = CmpUnmounted
            /\ reqs' = Orphaned(reqs)
            /\ sessionStorage' = storage
            /\ uiCrashed' = uiCrashed

\* A click on one of Home's navigation buttons.
SetPhase ==
  /\ UiIdle
  /\ \E ph \in Phases \ { phase } : SwitchPhase(ph, sessionStorage)
  /\ UNCHANGED << mainVars, axiosVars, axiosError >>

\* =================================================================
\* TranslationSection
\* =================================================================

\* disabled={isLoading} on Clear, Submit, Compare and the language Select.
TrControlsDisabled == tr.isLoading

\* The user types into the Source Article URL input.
TrEditUrl ==
  /\ UiIdle /\ tr.mounted
  /\ \E u \in Urls \ { tr.sourceArticleUrl } :
       tr' = [tr EXCEPT !.sourceArticleUrl = u]
  /\ UNCHANGED << mainVars, axiosVars, axiosError, phase, uiCrashed, sessionStorage, cmp, reqs, alertBox >>

\* The interval set at mount fires: checkBackendStatus().
TrPoll ==
  /\ UiIdle /\ tr.mounted
  /\ CanSend
  /\ reqs' = Sent(reqs, Probe("none", UrlEmpty))
  /\ UNCHANGED << mainVars, axiosVars, axiosError, phase, uiCrashed, sessionStorage, tr, cmp, alertBox >>

\* onSubmit up to its first await: setIsLoading(true), checkBackendStatus().
TrSubmit ==
  /\ UiIdle /\ tr.mounted
  /\ ~TrControlsDisabled
  /\ CanSend
  /\ tr' = [tr EXCEPT !.isLoading = TRUE]
  /\ reqs' = Sent(reqs, Probe("submit", tr.sourceArticleUrl))
  /\ UNCHANGED << mainVars, axiosVars, axiosError, phase, uiCrashed, sessionStorage, cmp, alertBox >>

\* The language Select changes: field.onChange(value), onLanguageChange(value).
\* `new URL(sourceUrl)` throws on a string that is no URL: the catch block
\* alerts and the request is never sent.
TrLanguageChange ==
  /\ UiIdle /\ tr.mounted
  /\ ~TrControlsDisabled
  /\ tr.availableTranslationLanguages # << >>
  /\ \E i \in 1..Len(tr.availableTranslationLanguages) :
       LET language == tr.availableTranslationLanguages[i]
           chosen   == [tr EXCEPT !.targetArticleLanguage = language]
       IN  IF tr.sourceArticleUrl.ok
             THEN /\ CanSend
                  /\ tr' = [chosen EXCEPT !.isLoading = TRUE]
                  /\ reqs' = Sent(reqs,
                       [Request("translate", "translation", "none",
                                tr.sourceArticleUrl) EXCEPT !.language = language])
                  /\ alertBox' = alertBox
             ELSE /\ tr' = [chosen EXCEPT !.isLoading = FALSE]
                  /\ reqs' = reqs
                  /\ alertBox' = Alert(TranslationErrorMessage(ErrInvalidUrl, "translate"),
                                       "trFinally", TRUE)
  /\ UNCHANGED << mainVars, axiosVars, axiosError, phase, uiCrashed, sessionStorage, cmp >>

\* The Clear button.
TrClear ==
  /\ UiIdle /\ tr.mounted
  /\ ~TrControlsDisabled
  /\ tr' = [tr EXCEPT !.sourceArticleUrl = UrlEmpty,
                      !.sourceArticleContent = "",
                      !.translatedArticleContent = ""]
  /\ tr' # tr
  /\ UNCHANGED << mainVars, axiosVars, axiosError, phase, uiCrashed, sessionStorage, cmp, reqs, alertBox >>

\* handleCompare: the form values are read, the navigation button is looked
\* up and clicked when found, then the item is stored. The render that a
\* click causes comes after the handler has returned.
handleCompare ==
  LET item == [present |-> TRUE,
               sourceContent |-> tr.sourceArticleContent,
               translatedContent |-> tr.translatedArticleContent,
               sourceUrl |-> tr.sourceArticleUrl,
               targetLanguage |-> tr.targetArticleLanguage]
  IN  IF ComparisonButtonFound # {}
        THEN SwitchPhase("AI_COMPARISON", item)
        ELSE /\ sessionStorage' = item
             /\ UNCHANGED << phase, uiCrashed, tr, cmp, reqs, alertBox >>

\* The Compare button of TranslationSection.
TrCompare ==
  /\ UiIdle /\ tr.mounted
  /\ ~TrControlsDisabled
  /\ tr.sourceArticleContent # "" /\ tr.translatedArticleContent # ""
  /\ handleCompare
  /\ UNCHANGED << mainVars, axiosVars, axiosError >>

\* =================================================================
\* ComparisonSection
\* =================================================================

\* disabled={isLoading} on the Fetch and the submit button.
CmpControlsDisabled == cmp.isLoading

\* The finally block of onSubmit (the assignment abortController = null
\* goes to the binding of the closure that ran onSubmit), followed by the
\* render and the timer effect.
\* (OnSubmitFinally_keepsLoading: an onSubmit without the finally block.)
OnSubmitFinally_keepsLoading(c) == c
OnSubmitFinally(c) ==
  TimerEffect(Render([c EXCEPT !.isLoading = FALSE, !.isRunning = FALSE]))

\* The finally block of fetchFromUrl.
FetchFromUrlFinally(c) == Render([c EXCEPT !.isLoading = FALSE])

\* The Fetch button: fetchFromUrl(url, setSourceText, setSourceLanguage) on
\* a non-empty value of the source-url input.
CmpFetch ==
  /\ UiIdle /\ cmp.mounted
  /\ ~CmpControlsDisabled
  /\ CanSend
  /\ \E u \in { x \in Urls : Truthy(x) } :
       reqs' = Sent(reqs, Request("fetch", "comparison", "none", u))
  /\ cmp' = Render([cmp EXCEPT !.isLoading = TRUE])
  /\ UNCHANGED << mainVars, axiosVars, axiosError, phase, uiCrashed, sessionStorage, tr, alertBox >>

\* onSubmit up to its await: the new AbortController is stored in the
\* binding of the closure that runs, the three state setters cause a
\* render, and compareArticles is called with the closure's values.
\* The state updates at the top of onSubmit: setIsLoading(true),
\* setIsRunning(true), setComparisonResult(null).
OnSubmitStart_keepsResult(c) ==
  [c EXCEPT !.isLoading = TRUE, !.isRunning = TRUE, !.received = << >>]
OnSubmitStart(c) ==
  [c EXCEPT !.isLoading = TRUE, !.isRunning = TRUE,
            !.comparisonResult = NoResult, !.received = << >>]

CmpSubmit ==
  /\ UiIdle /\ cmp.mounted
  /\ ~CmpControlsDisabled
  /\ CanSend
  /\ LET closure == [cmp EXCEPT !.abortController = NewController]
     IN  /\ reqs' = Sent(reqs,
               [compareArticles(closure.formSourceText, closure.formTargetText,
                                closure.sourceLanguage, closure.targetLanguage)
                  EXCEPT !.elapsed = closure.elapsedTime])
         /\ cmp' = Render(OnSubmitStart(closure))
  /\ UNCHANGED << mainVars, axiosVars, axiosError, phase, uiCrashed, sessionStorage, tr,
                  alertBox >>

\* onStopComparison of render c, on request r: abort() on the controller
\* the render's binding holds reaches the request that was given its signal.
onStopComparison(c, r) ==
  IF c.abortController # NoController /\ r.signal = c.abortController
    THEN [r EXCEPT !.aborted = TRUE]
    ELSE r

\* The click on Stop as request r sees it.
Stopped(r) ==
  IF r.kind = "compare" /\ r.live
    THEN [onStopComparison(cmp, r) EXCEPT !.stopClicked = TRUE]
    ELSE r

\* The Stop button (rendered while isLoading) of the current render.
CmpStop ==
  /\ UiIdle /\ cmp.mounted
  /\ cmp.isLoading
  /\ reqs' = BagOfAll(Stopped, reqs)
  /\ reqs' # reqs
  /\ UNCHANGED << mainVars, axiosVars, axiosError, phase, uiCrashed, sessionStorage, tr, cmp,
                  alertBox >>

\* The 1 s interval of the timer effect, set while isRunning.
Tick ==
  /\ UiIdle /\ cmp.mounted
  /\ cmp.isRunning
  /\ cmp.elapsedTime < MaxElapsed
  /\ cmp' = Render([cmp EXCEPT !.elapsedTime = @ + 1])
  /\ UNCHANGED << mainVars, axiosVars, axiosError, phase, uiCrashed, sessionStorage, tr, reqs, alertBox >>

\* =================================================================
\* Requests settle
\* =================================================================

\* How request r can end: with a response body, or with an error. axios
\* rejects with ERR_CANCELED when the signal it was given is aborted.
Successes(r) ==
  CASE r.kind = "fetch"     -> { [ok |-> TRUE, body |-> b, err |-> ErrNetwork] :
                                   b \in { [x |-> f.sourceArticle, xs |-> f.articleLanguages] :
                                             f \in FetchResponses } }
    [] r.kind = "translate" -> { [ok |-> TRUE, body |-> b, err |-> ErrNetwork] :
                                   b \in { [x |-> t.translatedArticle, xs |-> << >>] :
                                             t \in TranslateResponses } }
    [] r.kind = "compare"   -> { [ok |-> TRUE, body |-> b, err |-> ErrNetwork] :
                                   b \in { [x |-> IF c.has THEN "" ELSE "undefined",
                                            xs |-> c.comparisons] :
                                             c \in CompareResponses } }
    [] OTHER                -> { [ok |-> TRUE, body |-> [x |-> "", xs |-> << >>],
                                  err |-> ErrNetwork] }

Failures(r) ==
  { [ok |-> FALSE, body |-> [x |-> "", xs |-> << >>], err |-> e] :
      e \in IF r.aborted THEN { ErrCanceled }
            ELSE IF r.kind = "probe" THEN { ErrNetwork }
            ELSE AxiosErrors }

Outcomes(r) == IF r.aborted THEN Failures(r) ELSE Successes(r) \cup Failures(r)

\* checkBackendStatus after its await, and, for the probe onSubmit awaited,
\* the call of fetchArticle that follows.
\* checkBackendStatus after its axios.get settled: setBackendStatus('online')
\* at the end of the try block, setBackendStatus('offline') in the catch.
checkBackendStatus_ignoresFailure(status, ok) == IF ok THEN "online" ELSE status
checkBackendStatus(status, ok) == IF ok THEN "online" ELSE "offline"

\* startBackend after its await. The setTimeout of the success branch is
\* never cleared; the alert of the other branches blocks until dismissed,
\* and the finally block runs after it.
StartBackendSettles(r) ==
  /\ r.reply # "none"
  /\ IF r.reply = "success"
       THEN /\ reqs' = Sent(Settled(reqs, r), [r EXCEPT !.kind = "timeout", !.reply = "none"])
            /\ tr' = IF r.live THEN [tr EXCEPT !.isBackendStarting = FALSE] ELSE tr
            /\ UNCHANGED alertBox
       ELSE /\ reqs' = Settled(reqs, r)
            /\ alertBox' = Alert(IF r.reply = "failure"
                                   THEN Message("Failed to start backend: ", 0, "error")
                                   ELSE Message("Failed to start backend. Please check the logs.", 0, ""),
                                 "startBackendFinally", r.live)
            /\ UNCHANGED tr
  /\ UNCHANGED cmp

\* The callback of that setTimeout: checkBackendStatus().
TimeoutFires(r) ==
  /\ reqs' = Sent(Settled(reqs, r), [Probe("none", UrlEmpty) EXCEPT !.live = r.live])
  /\ UNCHANGED << tr, cmp, alertBox >>

ProbeSettles(r, o) ==
  /\ tr' = IF r.live
             THEN [tr EXCEPT !.backendStatus = checkBackendStatus(@, o.ok),
                             !.probed = IF o.ok THEN "ok" ELSE "failed"]
             ELSE tr
  /\ reqs' = IF r.cont = "submit"
               THEN Sent(Settled(reqs, r), [r EXCEPT !.kind = "fetch", !.cont = "none"])
               ELSE Settled(reqs, r)
  /\ UNCHANGED << cmp, alertBox >>

\* TranslationSection's onSubmit after `await fetchArticle(...)`.
TrFetchSettles(r, o) ==
  /\ reqs' = Settled(reqs, r)
  /\ IF o.ok
       THEN /\ tr' = IF r.live
                       THEN [tr EXCEPT !.sourceArticleContent = setValue(@, o.body.x),
                                       !.availableTranslationLanguages = o.body.xs,
                                       !.isLoading = FALSE]
                       ELSE tr
            /\ alertBox' = alertBox
       ELSE /\ tr' = IF r.live THEN [tr EXCEPT !.isLoading = FALSE] ELSE tr
            /\ alertBox' = Alert(TranslationErrorMessage(o.err, "fetch"),
                                 "trFinally", r.live)
  /\ UNCHANGED cmp

\* onLanguageChange after `await translateArticle(...)`.
TranslateSettles(r, o) ==
  /\ reqs' = Settled(reqs, r)
  /\ IF o.ok
       THEN /\ tr' = IF r.live
                       THEN [tr EXCEPT !.translatedArticleContent = setValue(@, o.body.x),
                                       !.isLoading = FALSE]
                       ELSE tr
            /\ alertBox' = alertBox
       ELSE /\ tr' = IF r.live THEN [tr EXCEPT !.isLoading = FALSE] ELSE tr
            /\ alertBox' = Alert(TranslationErrorMessage(o.err, "translate"),
                                 "trFinally", r.live)
  /\ UNCHANGED cmp

\* fetchFromUrl after `await fetchArticle(url)`.
\* The user edits the Source Content textarea of ComparisonSection (it is
\* never disabled).
CmpEditSource ==
  /\ UiIdle /\ cmp.mounted
  /\ cmp.formSourceText # Typed
  /\ cmp' = [cmp EXCEPT !.formSourceText = Typed, !.lostEdit = FALSE]
  /\ UNCHANGED << mainVars, axiosVars, axiosError, phase, uiCrashed, sessionStorage, tr,
                  reqs, alertBox >>

CmpFetchSettles(r, o) ==
  /\ reqs' = Settled(reqs, r)
  /\ IF o.ok
       THEN /\ cmp' = IF r.live
                        THEN FetchFromUrlFinally(
                               [cmp EXCEPT !.sourceLanguage = WikiLang(r.url),
                                           !.sourceText = o.body.x,
                                           !.formSourceText = setValue(@, o.body.x),
                                           !.lostEdit = (cmp.formSourceText = Typed)])
                        ELSE cmp
            /\ alertBox' = alertBox
       ELSE /\ cmp' = cmp
            /\ alertBox' = Alert(Message("Failed to fetch article. Please check the URL and try again.", 0, ""),
                                 "fetchFromUrlFinally", r.live)
  /\ UNCHANGED tr

\* ComparisonSection's onSubmit after `await compareArticles(...)`.
\* `const comparison = response.data.comparisons[0]`; NoResult stands for
\* undefined (an empty array).
FirstComparison_last(comparisons) ==
  IF Len(comparisons) > 0 THEN comparisons[Len(comparisons)] ELSE NoResult
FirstComparison(comparisons) ==
  IF Len(comparisons) > 0 THEN comparisons[1] ELSE NoResult

\* onSubmit of ComparisonSection after its await: the rest of the try
\* block, or the catch block up to its alert. o.body.x = "undefined": the
\* body has no comparisons member, so `response.data.comparisons[0]` throws
\* inside the try block.
CompareSettles(r, o) ==
  /\ reqs' = Settled(reqs, r)
  /\ IF o.ok /\ o.body.x # "undefined"
       THEN /\ cmp' = IF r.live
                        THEN OnSubmitFinally(
                               [cmp EXCEPT !.comparisonResult = FirstComparison(o.body.xs),
                                           !.received = o.body.xs,
                                           !.sourceText = r.textA,
                                           !.targetText = r.textB])
                        ELSE cmp
            /\ alertBox' = alertBox
            /\ axiosError' = axiosError
       ELSE /\ cmp' = cmp
            /\ axiosError' = IF o.ok THEN ErrNoComparisons ELSE o.err
            /\ alertBox' = Alert(ComparisonErrorMessage(axiosError', r.elapsed),
                                 "onSubmitFinally", r.live)
  /\ UNCHANGED tr

\* The response, timeout or error of request r arrives.
SettleReq(r) ==
  /\ UiIdle
  /\ r \in BagToSet(reqs)
  /\ CASE r.kind = "startBackend" -> StartBackendSettles(r)
       [] r.kind = "timeout"      -> TimeoutFires(r)
       [] OTHER ->
            \E o \in Outcomes(r) :
              CASE r.kind = "probe"     -> ProbeSettles(r, o)
                [] r.kind = "translate" -> TranslateSettles(r, o)
                [] r.kind = "compare"   -> CompareSettles(r, o)
                [] r.kind = "fetch" /\ r.view = "translation" -> TrFetchSettles(r, o)
                [] OTHER                -> CmpFetchSettles(r, o)
  /\ IF r.kind = "compare" THEN TRUE ELSE UNCHANGED axiosError
  /\ UNCHANGED << mainVars, axiosVars, phase, uiCrashed, sessionStorage >>

Settle == \E r \in BagToSet(reqs) : SettleReq(r)

\* The user closes the alert: the handler that called alert() goes on with
\* what follows the call (its finally block).
DismissAlert ==
  /\ ~uiCrashed
  /\ alertBox.open
  /\ alertBox' = NoAlert
  /\ axiosError' = NoError
  /\ tr' = IF alertBox.live /\ alertBox.cont = "trFinally"
             THEN [tr EXCEPT !.isLoading = FALSE]
           ELSE IF alertBox.live /\ alertBox.cont = "startBackendFinally"
             THEN [tr EXCEPT !.isBackendStarting = FALSE]
           ELSE tr
  /\ cmp' = IF alertBox.live /\ alertBox.cont = "onSubmitFinally"
              THEN OnSubmitFinally(cmp)
            ELSE IF alertBox.live /\ alertBox.cont = "fetchFromUrlFinally"
              THEN FetchFromUrlFinally(cmp)
            ELSE cmp
  /\ UNCHANGED << mainVars, axiosVars, phase, uiCrashed, sessionStorage, reqs >>

\* =================================================================
\* Initial state and next-state relation of the main process
\* =================================================================

Platforms == {"darwin", "linux"}

NoClient == [made |-> FALSE, bridge |-> BridgeAbsent,
             result |-> [threw |-> FALSE, client |-> AxiosCreate("", 0)]]

\* The state once main.ts and its imports are loaded: initializeConstants()
\* has been called once (the readFile is in flight), nothing else has run.
MainInitOn(files) ==
  /\ platform \in Platforms
  /\ configFile \in files
  /\ appConstantsPromise = Pending
  /\ readCount = 1
  /\ AppConstants = Undefined
  /\ appState = "loaded"
  /\ windows = 0
  /\ created = 0
  /\ cwAwaiting = {}
  /\ grabbed = [seen |-> FALSE, promise |-> Pending]
  /\ procs = {}
  /\ timedOut = {}
  /\ cmdLog = {}
  /\ startReplies = << >>
  /\ spawnFailed = {}
  /\ lastConfigReply = [served |-> FALSE, value |-> Undefined]
  /\ lastClient = NoClient

\* The renderer once Home has rendered: TranslationSection is mounted and its
\* mount effect has sent the first liveness probe.
UiInit ==
  /\ phase = "TRANSLATION"
  /\ uiCrashed = FALSE
  /\ sessionStorage = NoItem
  /\ tr = TrInit
  /\ cmp = CmpUnmounted
  /\ reqs = SetToBag({ Probe("none", UrlEmpty) })
  /\ alertBox = NoAlert
  /\ axiosError = NoError

MainInit == MainInitOn(ConfigFiles)

Init == MainInit /\ UiInit

\* The main process: window lifecycle and backend control.
Next ==
  \/ ReadFileDone
  \/ AppReady
  \/ Activate
  \/ StartBackendHandler
  \/ ExecCallback
  \/ WindowAllClosed
  \/ AppQuit

Spec == Init /\ [][Next]_vars

\* The configuration path: the loader, the runs of createWindow, the
\* get-app-config handler and the renderer's client factory that calls it.
NextConfig ==
  \/ ReadFileDone
  \/ AppReady
  \/ Activate
  \/ WindowAllClosed
  \/ GetAppConfig
  \/ GetAxiosInstance

SpecConfig == Init /\ [][NextConfig]_vars

\* The configuration loader on every valid file, with the window lifecycle
\* that awaits it.
InitLoader == MainInitOn(ValidConfigFiles) /\ UiInit

NextLoader ==
  \/ ReadFileDone
  \/ AppReady
  \/ Activate
  \/ WindowAllClosed

SpecLoader == InitLoader /\ [][NextLoader]_vars

\* The renderer: the three views under Home and their requests.
\* The Start Backend button is rendered only next to the "offline"
\* indicator, and is disabled while isBackendStarting.
StartBackendShown_always(t) == TRUE
StartBackendShown(t) == t.backendStatus = "offline"

\* A click on Start Backend: startBackend() up to its await.
TrStartBackend ==
  /\ UiIdle /\ tr.mounted
  /\ StartBackendShown(tr) /\ ~tr.isBackendStarting
  /\ tr.backendStatus # "online"
  /\ CanSend
  /\ tr' = [tr EXCEPT !.isBackendStarting = TRUE]
  /\ reqs' = Sent(reqs, Request("startBackend", "translation", "none", UrlEmpty))
  /\ UNCHANGED << mainVars, axiosVars, axiosError, phase, uiCrashed, sessionStorage, cmp, alertBox >>

\* What an electronAPI.startBackend() call ends with: an object with
\* success true, one with success false and an error text, or an exception
\* (a rejected invoke, or a bridge that has no startBackend).
StartBackendResults == { "success", "failure", "threw" }

\* The answer to a call arrives in the renderer.
StartBackendReply ==
  /\ \E r \in BagToSet(reqs), res \in StartBackendResults :
       /\ r.kind = "startBackend" /\ r.reply = "none"
       /\ reqs' = Sent(Settled(reqs, r), [r EXCEPT !.reply = res])
  /\ UNCHANGED << mainVars, axiosVars, axiosError, phase, uiCrashed, sessionStorage, tr, cmp, alertBox >>

NextUI ==
  \/ CmpEditSource
  \/ TrStartBackend
  \/ StartBackendReply
  \/ SetPhase
  \/ TrEditUrl
  \/ TrPoll
  \/ TrSubmit
  \/ TrLanguageChange
  \/ TrClear
  \/ TrCompare
  \/ CmpFetch
  \/ CmpSubmit
  \/ CmpStop
  \/ Tick
  \/ Settle
  \/ DismissAlert

\* The renderer's actions read none of the main process' variables: one
\* start of the main process stands for all of them.
InitUI == Init /\ platform = "linux" /\ configFile.status = "missing"

SpecUI == InitUI /\ [][NextUI]_vars

\* A request of the mounted view that a user action started settles: every
\* axios call has a timeout (30 s on the instance, 5 s on the probe).
\* The backend-status machinery of the translation view on its own:
\* navigation, the probes (mount, interval, submit, re-poll) and the manual
\* start.
NextStatus ==
  \/ SetPhase
  \/ TrEditUrl
  \/ TrPoll
  \/ TrSubmit
  \/ TrStartBackend
  \/ StartBackendReply
  \/ Settle
  \/ DismissAlert

SpecStatus == InitUI /\ [][NextStatus]_vars

\* The classification of compare failures on its own. Everything a
\* rejection of the compare request can look like to the catch block:
\* any code, with or without a response (status 0: none), with or without
\* a detail in the response body.
ErrorCodes == { "ECONNABORTED", "ERR_CANCELED", "ERR_NETWORK", "ERR_BAD_REQUEST",
                "ERR_BAD_RESPONSE" }
ErrorObjects ==
  { e \in [name : { "AxiosError" }, code : ErrorCodes,
           status : { 0 } \cup HttpStatuses \cup { 503 },
           detail : { "", "backend detail" },
           message : { "Network Error", "timeout of 30000ms exceeded" }] :
      e.status = 0 => e.detail = "" }

\* A submitted comparison whose request has just been rejected with
\* axiosError: onSubmit is about to enter its catch block.
InitClassify ==
  /\ MainInit /\ platform = "linux" /\ configFile.status = "missing"
  /\ phase = "COMPARISON"
  /\ uiCrashed = FALSE
  /\ sessionStorage = NoItem
  /\ tr = TrUnmounted
  /\ cmp = Render([CmpInit EXCEPT !.isLoading = TRUE, !.isRunning = TRUE])
  /\ reqs = SetToBag({ compareArticles("", "", "en", "en") })
  /\ alertBox = NoAlert
  /\ axiosError \in ErrorObjects

\* The catch block runs on it.
Classify ==
  /\ UiIdle
  /\ axiosError # NoError
  /\ \E r \in BagToSet(reqs) :
       /\ r.kind = "compare"
       /\ CompareSettles(r, [ok |-> FALSE, body |-> [x |-> "", xs |-> << >>],
                             err |-> axiosError])
  /\ UNCHANGED << mainVars, axiosVars, phase, uiCrashed, sessionStorage >>

NextClassify ==
  \/ Classify
  \/ DismissAlert

SpecClassify == InitClassify /\ [][NextClassify]_vars

\* The requests that fill form fields, and the edits of those fields.
NextFields ==
  \/ SetPhase
  \/ TrEditUrl
  \/ TrSubmit
  \/ TrLanguageChange
  \/ TrClear
  \/ CmpFetch
  \/ CmpEditSource
  \/ Settle
  \/ DismissAlert

SpecFields == InitUI /\ [][NextFields]_vars

\* The comparison view on its own: navigation, fetch, submission, stop,
\* the timer and the settling of requests.
NextCompare ==
  \/ SetPhase
  \/ CmpFetch
  \/ CmpSubmit
  \/ CmpStop
  \/ Tick
  \/ Settle
  \/ DismissAlert

SpecCompare == InitUI /\ [][NextCompare]_vars

\* -----------------------------------------------------------------
\* The query strings of fetchArticle and translateArticle. Strings are
\* sequences of characters; "query=", "title=" and "&language=" stand for
\* these literal pieces of the serializers' template strings.
\* -----------------------------------------------------------------
Alphabet == { "a", " ", "&", "/", "%" }
Strings(n) == UNION { [1..k -> Alphabet] : k \in 0..n }

\* encodeURIComponent: unreserved characters stay, every other character
\* becomes % and the two hex digits of its code.
EncodeChar(c) ==
  CASE c = " " -> << "%", "2", "0" >>
    [] c = "&" -> << "%", "2", "6" >>
    [] c = "/" -> << "%", "2", "F" >>
    [] c = "%" -> << "%", "2", "5" >>
    [] OTHER   -> << c >>
RECURSIVE encodeURIComponent(_)
encodeURIComponent(str) ==
  IF str = << >> THEN << >>
  ELSE EncodeChar(Head(str)) \o encodeURIComponent(Tail(str))

\* What a server does with a query value: one pass of percent-decoding.
DecodeHex(h) ==
  CASE h = << "2", "0" >> -> " "
    [] h = << "2", "6" >> -> "&"
    [] h = << "2", "F" >> -> "/"
    [] h = << "2", "5" >> -> "%"
    [] OTHER -> "?"
RECURSIVE PercentDecode(_)
PercentDecode(str) ==
  IF str = << >> THEN << >>
  ELSE IF Head(str) = "%" /\ Len(str) >= 3
    THEN << DecodeHex(SubSeq(str, 2, 3)) >> \o PercentDecode(SubSeq(str, 4, Len(str)))
  ELSE << Head(str) >> \o PercentDecode(Tail(str))

\* paramsSerializer of fetchArticle.
FetchQuery_raw(query) == << "query=" >> \o query
FetchQuery(query) == << "query=" >> \o encodeURIComponent(query)

\* paramsSerializer of translateArticle: Object.entries(params) in
\* insertion order (title, language), joined with '&'.
TranslateQuery_encodesTitle(title, language) ==
  << "title=" >> \o encodeURIComponent(title)
    \o << "&language=" >> \o encodeURIComponent(language)
TranslateQuery(title, language) ==
  << "title=" >> \o title \o << "&language=" >> \o encodeURIComponent(language)

\* A call of a service function: suspended in `await getAxiosInstance()`
\* (sent FALSE), then with its GET issued.
ServiceCall(name, args) ==
  [kind |-> name, args |-> args, sent |-> FALSE, path |-> "", query |-> << >>]
ServiceCalls ==
  { ServiceCall("fetchArticle", << u >>) : u \in Strings(MaxLen) }
  \cup { ServiceCall("translateArticle", << t, l >>) :
           t \in Strings(MaxLen - 1), l \in Strings(MaxLen - 1) }

InitQuery ==
  /\ MainInit /\ platform = "linux" /\ configFile.status = "missing"
  /\ phase = "TRANSLATION"
  /\ uiCrashed = FALSE
  /\ sessionStorage = NoItem
  /\ tr = [TrInit EXCEPT !.isLoading = TRUE]
  /\ cmp = CmpUnmounted
  /\ \E call \in ServiceCalls : reqs = SetToBag({ call })
  /\ alertBox = NoAlert
  /\ axiosError = NoError

\* fetchArticle after `await getAxiosInstance()`: axiosInstance.get(...).
FetchArticleGet ==
  /\ \E call \in BagToSet(reqs) :
       /\ call.kind = "fetchArticle" /\ ~call.sent
       /\ reqs' = SetToBag({ [call EXCEPT !.sent = TRUE,
                                          !.path = "/symmetry/v1/wiki/articles",
                                          !.query = FetchQuery(call.args[1])] })
  /\ UNCHANGED << mainVars, axiosVars, axiosError, phase, uiCrashed, sessionStorage,
                  tr, cmp, alertBox >>

\* translateArticle after `await getAxiosInstance()`.
TranslateArticleGet ==
  /\ \E call \in BagToSet(reqs) :
       /\ call.kind = "translateArticle" /\ ~call.sent
       /\ reqs' = SetToBag({ [call EXCEPT
                               !.sent = TRUE,
                               !.path = "/symmetry/v1/wiki_translate/source_article",
                               !.query = TranslateQuery(call.args[1], call.args[2])] })
  /\ UNCHANGED << mainVars, axiosVars, axiosError, phase, uiCrashed, sessionStorage,
                  tr, cmp, alertBox >>

NextQuery ==
  \/ FetchArticleGet
  \/ TranslateArticleGet

SpecQuery == InitQuery /\ [][NextQuery]_vars

\* The Results Section on its own: a view showing any comparison result,
\* and what the user can do from there.
InitRender ==
  /\ MainInit /\ platform = "linux" /\ configFile.status = "missing"
  /\ phase = "COMPARISON"
  /\ uiCrashed = FALSE
  /\ sessionStorage = NoItem
  /\ tr = TrUnmounted
  /\ \E result \in ComparisonResults :
       cmp = Render([CmpInit EXCEPT !.comparisonResult = result,
                                    !.received = << result >>])
  /\ reqs = EmptyBag
  /\ alertBox = NoAlert
  /\ axiosError = NoError

NextRender ==
  \/ CmpFetch
  \/ CmpSubmit
  \/ CmpStop
  \/ Tick
  \/ Settle
  \/ DismissAlert

SpecRender == InitRender /\ [][NextRender]_vars

SettleUser ==
  \E r \in BagToSet(reqs) : r.live /\ IsUserRequest(r) /\ SettleReq(r)

\* The submissions of the two views and what ends them: the renderer
\* without the handoff to the comparison view.
NextSubmit ==
  \/ SetPhase
  \/ TrEditUrl
  \/ TrPoll
  \/ TrSubmit
  \/ TrLanguageChange
  \/ TrClear
  \/ CmpFetch
  \/ CmpSubmit
  \/ CmpStop
  \/ Tick
  \/ Settle
  \/ DismissAlert

\* The submissions with the progress their environment makes: requests
\* settle (an open alert holds the event loop, hence strong fairness) and
\* the user closes an alert that is shown.
SpecUILive ==
  /\ InitUI /\ [][NextSubmit]_vars
  /\ SF_vars(SettleUser)
  /\ WF_vars(DismissAlert)

\* =================================================================
\* Claims about the main process and the client factory
\* =================================================================

\* C2: every get-app-config request is answered with the AppConfig the
\* configuration loader resolved to, also when it arrives while the file is
\* still being read. (Stated for a valid file: once the loader has resolved,
\* the reply that was given is the resolved value.)
C2_ReplyIsLoadedConfig ==
  (lastConfigReply.served /\ appConstantsPromise.state = "fulfilled")
    => lastConfigReply.value = appConstantsPromise.value

\* C3: start-backend reports {success: true} only when the backend child
\* was spawned without error, and {success: false, error} whenever the spawn
\* fails.
C3_SuccessOnlyIfSpawned ==
  \A k \in 1..Len(startReplies) :
    (k \in spawnFailed) => (~startReplies[k].success /\ startReplies[k].error)

\* Position of the first occurrence of cmd in cmds (0 when absent).
FirstIndex(cmds, cmd) ==
  IF \E i \in 1..Len(cmds) : cmds[i] = cmd
    THEN CHOOSE i \in 1..Len(cmds) :
           cmds[i] = cmd /\ \A j \in 1..(i - 1) : cmds[j] # cmd
    ELSE 0

\* C4: every start-backend request issues a kill by process-name pattern
\* and a kill by port-owner lookup, both before the spawn of the new backend,
\* and the spawn is issued in every case.
C4_KillsThenSpawn ==
  \A k \in 1..Len(startReplies) :
    LET cmds == Issued(cmdLog, "start-backend", k)
        s    == FirstIndex(cmds, "spawn")
    IN  /\ s > 0
        /\ FirstIndex(cmds, "pkill") \in 1..(s - 1)
        /\ FirstIndex(cmds, "lsofkill") \in 1..(s - 1)

C1_StopAborts ==
  \A r \in BagToSet(reqs) : (r.kind = "compare" /\ r.stopClicked) => r.aborted

\* C6: in each view on screen, while a request a user action started is
\* outstanding, the view's loading flag is true and its controls are
\* disabled, and no two such requests of one view are outstanding together.
C6_OneUserRequestPerView ==
  /\ UserRequests("translation") <= 1
  /\ UserRequests("comparison") <= 1
  /\ (tr.mounted /\ UserRequests("translation") > 0)
       => (tr.isLoading /\ TrControlsDisabled)
  /\ (cmp.mounted /\ UserRequests("comparison") > 0)
       => (cmp.isLoading /\ CmpControlsDisabled)

\* C7: a view that a submission has put into the loading state returns to
\* idle (isLoading false; for the comparison view isRunning false as well),
\* whatever way the request ends.
C7_ReturnsToIdle ==
  /\ tr.isLoading ~> ~tr.isLoading
  /\ (cmp.isLoading \/ cmp.isRunning) ~> (~cmp.isLoading /\ ~cmp.isRunning)

\* A compare submission has ended with a result and the view is idle again.
C7_Witness ==
  cmp.mounted /\ ~cmp.isLoading /\ ~cmp.isRunning /\ cmp.comparisonResult = R2

\* C8: pressing Compare in the translation view stores the handoff and
\* takes the user to the comparison view.
C8_CompareNavigates ==
  [][TrCompare => phase' = "AI_COMPARISON"]_vars

\* C9: the mount of the comparison view deletes the handoff it finds, for
\* every payload: while the comparison view is the phase shown, no handoff
\* is left in session storage.
C9_HandoffConsumed ==
  phase = "AI_COMPARISON" => ~sessionStorage.present

\* =================================================================
\* Claims about configuration failure and defaults
\* =================================================================

\* C11: with a missing or malformed config.json the load fails and the
\* failure is what createWindow's grabConfig() throws; the file is read
\* once only, no AppConstants object is ever produced, the application
\* goes on (each run of createWindow has opened its window; the app quits
\* only by closing the windows), and every HTTP client made is the one with
\* the hardcoded fallback URL.
C11_LoadFailure ==
  /\ [](configFile.status # "ok" =>
          /\ readCount = 1
          /\ appConstantsPromise.state # "fulfilled"
          /\ ~AppConstants.defined
          /\ (grabbed.seen => grabbed.promise.state = "rejected")
          /\ (lastClient.made =>
                lastClient.result = [threw |-> FALSE,
                                     client |-> AxiosCreate(FallbackBaseUrl, AxiosTimeout)]))
  /\ [][configFile.status # "ok" =>
          /\ (created' # created => windows' = windows + 1)
          /\ (appState' = "quit" /\ appState # "quit" => (windows > 0 /\ windows' = 0))]_vars

\* The load of a malformed file has failed in createWindow, the window is
\* open and a client was made from the main process' reply.
C11_Witness ==
  /\ configFile.status = "malformed"
  /\ grabbed.seen /\ grabbed.promise.state = "rejected"
  /\ windows > 0 /\ appState = "running"
  /\ lastClient.made /\ lastClient.bridge.kind = "replies"

\* What the documented resolution gives for one key: the file's value when
\* the key is specified, the default when it is not.
Specified(opt, dflt) == IF opt = None THEN dflt ELSE opt[1]

\* C12: for a valid file, every key of the resolved configuration is the
\* file's value when the file specifies the key and the default otherwise;
\* the default of BACKEND_BASE_URL is the loopback URL on the resolved port.
C12_DefaultsForUnspecifiedOnly ==
  (configFile.status = "ok" /\ appConstantsPromise.state = "fulfilled") =>
    LET c == appConstantsPromise.value
    IN  /\ c.BACKEND_PORT = Specified(configFile.BACKEND_PORT, DefaultBackendPort)
        /\ c.FRONTEND_PORT = Specified(configFile.FRONTEND_PORT, DefaultFrontendPort)
        /\ c.OLLAMA_BASE_URL = Specified(configFile.OLLAMA_BASE_URL, DefaultOllamaUrl)
        /\ c.DEFAULT_TIMEOUT = Specified(configFile.DEFAULT_TIMEOUT, DefaultTimeout)
        /\ c.SIMILARITY_THRESHOLD =
             Specified(configFile.SIMILARITY_THRESHOLD, DefaultSimilarityThreshold)
        /\ c.BACKEND_BASE_URL =
             Specified(configFile.BACKEND_BASE_URL, LoopbackUrl(c.BACKEND_PORT))

\* =================================================================
\* Claims about quitting and the bridge
\* =================================================================

\* C13: the step in which the last window is closed off macOS, and every
\* step in which the application quits, issues a termination command
\* (killall) against the backend.
C13_QuitTerminatesBackend ==
  [][((appState' = "quit" /\ appState # "quit")
       \/ (platform # "darwin" /\ windows > 0 /\ windows' = 0))
      => \E e \in cmdLog' \ cmdLog : e.cmds[Len(e.cmds)] = "killall"]_vars

\* C14: while a window is open, what its renderer can ask of the main
\* process is this: the main process handles get-app-config and
\* start-backend and no other channel, and the bridge of the renderer offers
\* getAppConfig and startBackend and no other operation.
C14_TwoOperations ==
  windows > 0 =>
    /\ IpcHandlers = { "get-app-config", "start-backend" }
    /\ ElectronAPI = { "getAppConfig", "startBackend" }

\* C15: the client a service call (fetchArticle, translateArticle,
\* compareArticles) gets for its request carries the request and the
\* response logging interceptors.
C15_ClientLogs ==
  lastClient.made =>
    lastClient.result.client.interceptors = axiosInstance.interceptors

\* C16: while the translation view is mounted, its status is "online" after
\* a probe that got a response, "offline" after a probe that failed, and
\* "unknown" only while no probe has settled, in which case the probe
\* issued at mount is still outstanding; mounting the view issues a probe.
C16_ProbeSetsStatus ==
  /\ [](tr.mounted =>
          /\ (tr.probed = "ok" => tr.backendStatus = "online")
          /\ (tr.probed = "failed" => tr.backendStatus = "offline")
          /\ (tr.probed = "none" =>
                /\ tr.backendStatus = "unknown"
                /\ \E r \in BagToSet(reqs) : r.kind = "probe" /\ r.live)
          /\ (tr.backendStatus = "unknown" => tr.probed = "none"))
  /\ [][(~tr.mounted /\ tr'.mounted) =>
          \E r \in BagToSet(reqs') : r.kind = "probe" /\ r.live /\ r.cont = "none"]_vars
C16_Witness ==
  /\ tr.mounted /\ tr.probed = "failed" /\ tr.backendStatus = "offline"
  /\ \E r \in BagToSet(reqs) : r.kind = "probe" /\ r.live /\ r.cont = "none"

\* How many operations of one kind are outstanding.
Count(rs, kind) ==
  BagCardinality([ r \in { x \in BagToSet(rs) : x.kind = kind } |-> rs[r] ])

\* C17: a startBackend call is issued only by a mounted translation view
\* whose status is "offline", one call per trigger; when a call that was
\* answered with success is consumed, one 3 s timeout is armed and no alert
\* opens; when one that was answered with a failure or threw is consumed,
\* the matching alert opens and neither a timeout nor a probe is added;
\* a timeout that fires issues exactly one probe.
C17_StartBackend ==
  [][/\ (Count(reqs', "startBackend") > Count(reqs, "startBackend") =>
           /\ tr.mounted /\ tr.backendStatus = "offline"
           /\ Count(reqs', "startBackend") = Count(reqs, "startBackend") + 1)
     /\ (Count(reqs', "startBackend") < Count(reqs, "startBackend") =>
           \E r \in BagToSet(reqs) :
             /\ r.kind = "startBackend" /\ r.reply # "none"
             /\ CopiesIn(r, reqs') = CopiesIn(r, reqs) - 1
             /\ Count(reqs', "probe") = Count(reqs, "probe")
             /\ IF r.reply = "success"
                  THEN /\ Count(reqs', "timeout") = Count(reqs, "timeout") + 1
                       /\ alertBox' = alertBox
                  ELSE /\ Count(reqs', "timeout") = Count(reqs, "timeout")
                       /\ alertBox'.open
                       /\ alertBox'.msg.text =
                            IF r.reply = "failure"
                              THEN "Failed to start backend: "
                              ELSE "Failed to start backend. Please check the logs.")
     /\ (Count(reqs', "timeout") < Count(reqs, "timeout") =>
           /\ Count(reqs', "timeout") = Count(reqs, "timeout") - 1
           /\ Count(reqs', "probe") = Count(reqs, "probe") + 1)
     /\ (Count(reqs', "timeout") > Count(reqs, "timeout") =>
           Count(reqs', "startBackend") < Count(reqs, "startBackend"))]_vars
C17_Witness ==
  /\ tr.mounted /\ tr.backendStatus = "offline" /\ ~tr.isBackendStarting
  /\ \E r \in BagToSet(reqs) : r.kind = "timeout" /\ r.live
  /\ \E r \in BagToSet(reqs) : r.kind = "startBackend" /\ r.reply = "threw"

\* The message classes of a compare failure, in the order of precedence.
ClassOf(e) ==
  LET applies == << e.code = "ECONNABORTED", e.code = "ERR_CANCELED", e.status = 400,
                    e.status = 404, e.status = 422, e.status >= 500, e.status = 0, TRUE >>
  IN  CHOOSE i \in 1..8 : applies[i] /\ \A j \in 1..(i - 1) : ~applies[j]
ClassText ==
  << "Comparison request timed out after", "Comparison was stopped by the user.",
     "Bad Request: ", "Comparison endpoint not found (404). ", "Validation Error: ",
     "Server error", "Unable to connect to the backend server.", "Comparison failed: " >>

\* C18: the message shown for a failed compare request is the one of the
\* first class that applies to the error, in the order timeout code,
\* canceled code, HTTP 400, 404, 422, status >= 500, no response, generic;
\* the HTTP classes end with the backend's detail when there is one, the
\* server class names the status, the generic class ends with the error's
\* message.
C18_Classification ==
  (alertBox.open /\ alertBox.cont = "onSubmitFinally" /\ axiosError.name = "AxiosError") =>
    LET e == axiosError
        m == alertBox.msg
        k == ClassOf(e)
    IN  /\ m.text = ClassText[k]
        /\ (k \in 3..6 /\ e.detail # "" => m.tail = e.detail)
        /\ (k = 6 => m.n = e.status)
        /\ (k = 8 => m.tail = e.message)
C18_Witness ==
  /\ alertBox.open /\ alertBox.cont = "onSubmitFinally"
  /\ axiosError.code = "ECONNABORTED" /\ axiosError.status = 0
  /\ alertBox.msg.text = "Comparison request timed out after"

\* C19: the alert of a compare submission carries the connectivity guidance
\* exactly when the request was rejected without a response and with
\* neither the timeout nor the canceled code; an error raised after a
\* response arrived never produces it.
C19_ConnectivityOnlyWithoutResponse ==
  (alertBox.open /\ alertBox.cont = "onSubmitFinally") =>
    (alertBox.msg.text = "Unable to connect to the backend server."
       <=> /\ axiosError.name = "AxiosError"
           /\ axiosError.status = 0
           /\ axiosError.code \notin { "ECONNABORTED", "ERR_CANCELED" })

\* C20: when the alert of a timed-out compare request opens, the number of
\* seconds it states is the value the elapsed-time counter of the view has
\* at that moment.
C20_TimeoutStatesElapsed ==
  [][(/\ ~alertBox.open /\ alertBox'.open
      /\ alertBox'.live
      /\ alertBox'.msg.text = "Comparison request timed out after")
     => alertBox'.msg.n = cmp.elapsedTime]_vars

\* C21: after a successful compare response the view's comparisonResult is
\* element 0 of the comparisons array of that response, whatever follows it
\* in the array.
C21_FirstComparisonOnly ==
  (cmp.mounted /\ Len(cmp.received) > 0) => cmp.comparisonResult = cmp.received[1]
C21_Witness ==
  cmp.mounted /\ Len(cmp.received) = 2 /\ cmp.comparisonResult = R2 /\ ~cmp.isLoading

C23_FetchQueryEncodedOnce ==
  \A call \in BagToSet(reqs) :
    (call.kind = "fetchArticle" /\ call.sent) =>
      /\ call.path = "/symmetry/v1/wiki/articles"
      /\ Head(call.query) = "query="
      /\ PercentDecode(Tail(call.query)) = call.args[1]
      /\ \A i \in 2..Len(call.query) : call.query[i] \notin { "&", " ", "/" }
C23_Witness ==
  \E call \in BagToSet(reqs) :
    /\ call.kind = "fetchArticle" /\ call.sent
    /\ call.args = << << "a", "&", "%" >> >>
    /\ call.query = << "query=", "a", "%", "2", "6", "%", "2", "5" >>

C25_SpawnOnConfiguredPort ==
  (AppConstants.defined /\ \E e \in cmdLog : "spawn" \in Range(e.cmds)) =>
    SpawnPort = AppConstants.BACKEND_PORT

\* C29: the main process never ends a backend it spawned because a fixed
\* time has passed since the spawn.
C29_NoTimedKill ==
  \A c \in timedOut : c.cmd # "spawn"

\* The texts a fetch / a translate response can carry.
FetchedTexts == { f.sourceArticle : f \in FetchResponses }
TranslatedTexts == { t.translatedArticle : t \in TranslateResponses }

\* C26: when a fetch or translate request of the mounted view resolves, the
\* form field it targets holds the text of that response afterwards,
\* whatever it held before (an edit made meanwhile included); an edit sets
\* the field to what was typed.
C26_LastWriteWins ==
  [][/\ \A r \in BagToSet(reqs) :
          (/\ r.kind \in { "fetch", "translate" } /\ r.live
           /\ Count(reqs', r.kind) < Count(reqs, r.kind)
           /\ CopiesIn(r, reqs') < CopiesIn(r, reqs)
           /\ alertBox' = alertBox)
          => CASE r.kind = "translate" -> tr'.translatedArticleContent \in TranslatedTexts
               [] r.view = "translation" -> tr'.sourceArticleContent \in FetchedTexts
               [] OTHER -> cmp'.formSourceText \in FetchedTexts
     /\ (cmp.mounted /\ cmp'.mounted /\ cmp'.formSourceText # cmp.formSourceText
         /\ reqs' = reqs) => cmp'.formSourceText = Typed]_vars
C26_Witness ==
  /\ cmp.mounted /\ cmp.lostEdit /\ cmp.formSourceText \in FetchedTexts
  /\ tr = TrUnmounted

\* The requests of the mounted comparison view that are outstanding.
CmpOutstanding(rs) ==
  { r \in BagToSet(rs) : r.view = "comparison" /\ r.live /\ r.kind \in { "fetch", "compare" } }

\* C27: in the mounted comparison view (no alert pending) the elapsed-time
\* counter is 0 while the view has no request outstanding and is running
\* (one step per second) while it has one; a submission starts from 0.
C27_ElapsedCounter ==
  /\ []((cmp.mounted /\ ~alertBox.open) =>
          /\ (CmpOutstanding(reqs) = {} => cmp.elapsedTime = 0)
          /\ (CmpOutstanding(reqs) # {} => cmp.isRunning))
  /\ [][(Count(reqs', "compare") > Count(reqs, "compare")) => cmp'.elapsedTime = 0]_vars

\* C28: in the mounted comparison view, while one of its compare requests
\* is outstanding comparisonResult is empty; after a compare that failed
\* it is empty; a result on display is element 0 of what the most recent
\* submission received.
C28_ResultOfLastSubmission ==
  /\ [](cmp.mounted =>
          /\ ((\E r \in CmpOutstanding(reqs) : r.kind = "compare")
                => ~cmp.comparisonResult.present)
          /\ ((alertBox.open /\ alertBox.live /\ alertBox.cont = "onSubmitFinally")
                => ~cmp.comparisonResult.present)
          /\ (cmp.comparisonResult.present
                => (Len(cmp.received) > 0 /\ cmp.comparisonResult = cmp.received[1])))
  /\ [][(Count(reqs', "compare") > Count(reqs, "compare"))
          => ~cmp'.comparisonResult.present]_vars
C28_Witness ==
  /\ cmp.mounted /\ ~cmp.comparisonResult.present
  /\ cmp.sourceText # "" /\ cmp.elapsedTime > 0
  /\ \E r \in CmpOutstanding(reqs) : r.kind = "compare"

\* C30: every liveness probe is issued by the translation view that is
\* mounted at that moment: an instance that has been unmounted issues none.
C30_NoProbeAfterUnmount ==
  [][(Count(reqs', "probe") > Count(reqs, "probe")) =>
       \E r \in BagToSet(reqs') :
         /\ r.kind = "probe" /\ r.live
         /\ CopiesIn(r, reqs') > CopiesIn(r, reqs)]_vars

=========================================================================
